---- MODULE Spec2Model ----
(***************************************************************************)
(* Model of lmic_arduino_tutorial.ino: an Arduino sketch that joins a      *)
(* LoRaWAN network through the LMIC stack and then sends a packed GPS TDF  *)
(* record on every EV_TXCOMPLETE, five seconds apart.                      *)
(*                                                                         *)
(* The sketch is single threaded: setup() runs once, loop() calls          *)
(* os_runloop_once() forever, and the stack calls onEvent() synchronously  *)
(* from inside os_runloop_once().  The LMIC stack itself is an external    *)
(* library: it is modelled as an environment that may raise any event      *)
(* code and may put LMIC.opmode and LMIC.txrxFlags in any combination.     *)
(*                                                                         *)
(* Every function of the sketch is an operator that returns the sequence   *)
(* of effects (calls, reads of LMIC fields, serial output) the function    *)
(* performs, in program order.                                             *)
(***************************************************************************)
EXTENDS Integers, Sequences, FiniteSets

(* ---------------------------- bounds ----------------------------------- *)
\* events raised by the radio side and not yet dispatched
MaxQueue == 1
\* the stack raises event codes 0..MaxEv; 1..15 are the codes of ev_t
MaxEv == 16
\* setup polls Serial at most MaxPolls times before it is ready
MaxPolls == 2

(* ------------------------ program constants ---------------------------- *)
EventCount == 15
EV_JOINING == 5
EV_JOINED == 6
EV_JOIN_FAILED == 8
EV_TXCOMPLETE == 10
EV_RXCOMPLETE == 13
GPS_SID == 281
DummyLat == 1234567890
DelayMs == 5000
TxPort == 1

EventCodes == 0..MaxEv
OpModeBits == {"OP_TXRXPEND"}
TxRxBits == {"TXRX_ACK", "TXRX_NACK"}

(* ----------------------------- effects --------------------------------- *)
Eff(o, a) == [op |-> o, arg |-> a]
Call(f) == Eff(f, "")
Out(s) == Eff("Serial.print", s)
OutLn(s) == Eff("Serial.println", s)

\* positions in s of the effects named o, and how many there are
Indices(s, o) == {i \in 1..Len(s) : s[i].op = o}
CountOp(s, o) == Cardinality(Indices(s, o))

(* ------------------------- diagnostic names ---------------------------- *)
\* the initializer has 14 string literals: "Link Dead" "Link Alive" are
\* adjacent literals without a comma and are concatenated by the compiler;
\* the 15th element of the array is value-initialized to a null pointer.
EventNameInit ==
  << "Scan Timeout", "Beacon Found", "Beacon Missed", "Beacon Tracked",
     "Joining", "Joined", "RFU", "Join Failed", "Rejoin Failed",
     "TX Complete", "Lost TSync", "Reset", "RXComplete",
     "Link DeadLink Alive" >>

NullPtr == "(null)"

EventName ==
  [i \in 0..(EventCount - 1) |->
     IF i + 1 <= Len(EventNameInit) THEN EventNameInit[i + 1] ELSE NullPtr]

(* --------------------------- TDF record -------------------------------- *)
\* members of GPS_TDF_DATA in declaration order, widths in bytes
Fields ==
  << [name |-> "lon",      width |-> 4, signed |-> TRUE],
     [name |-> "lat",      width |-> 4, signed |-> TRUE],
     [name |-> "height",   width |-> 4, signed |-> FALSE],
     [name |-> "accuracy", width |-> 2, signed |-> FALSE],
     [name |-> "heading",  width |-> 2, signed |-> FALSE],
     [name |-> "speed",    width |-> 2, signed |-> FALSE],
     [name |-> "pdop",     width |-> 1, signed |-> FALSE],
     [name |-> "fix",      width |-> 1, signed |-> FALSE],
     [name |-> "numsv",    width |-> 1, signed |-> FALSE],
     [name |-> "flags",    width |-> 1, signed |-> FALSE] >>

FieldNames == {Fields[i].name : i \in 1..Len(Fields)}

SidWidth == 2

\* total width of the first n members: the number of bytes they cover
SumWidths(n) ==
  Cardinality(UNION {{i} \X (1..Fields[i].width) : i \in 1..n})

\* __attribute__((packed)) on GPS_TDF_DATA: a member starts where the
\* previous one ends
DataOffset == [i \in 1..Len(Fields) |-> SumWidths(i - 1)]

sizeof_GPS_TDF_DATA == SumWidths(Len(Fields))

\* without the packed attribute Data would start on a 4-byte boundary
HeaderSizeUnpacked == ((SidWidth + 3) \div 4) * 4
\* __attribute__((packed)) on GPS_TDF: GPS_SID at 0, Data right after it
HeaderSize == SidWidth

\* byte offset of each member of Data inside GPS_TDF
FieldOffset == [i \in 1..Len(Fields) |-> HeaderSize + DataOffset[i]]

\* sizeof(tdf.Data) instead of sizeof(tdf)
sizeof_payload_only == sizeof_GPS_TDF_DATA
\* sizeof(tdf) in sendTDFData
sizeof_GPS_TDF == HeaderSize + sizeof_GPS_TDF_DATA

\* GPS_TDF_DATA(): memset(this, 0, sizeof(GPS_TDF_DATA))
GPS_TDF_DATA == [n \in FieldNames |-> 0]

\* GPS_TDF tdf;  (default member initializer GPS_SID = 281L)
GPS_TDF == [GPS_SID |-> GPS_SID, Data |-> GPS_TDF_DATA]

\* the bytes in network (big-endian) order instead of the native order
BEBytes(v, w) == [i \in 1..w |-> (v \div 256^(w - i)) % 256]
\* object representation of a w-byte integer on the little-endian targets
\* of the sketch (Feather M0, Feather 32u4); two's complement, so a value
\* outside the width keeps its low w bytes
LEBytes(v, w) == [i \in 1..w |-> (v \div 256^(i - 1)) % 256]

\* the byte of tdf at byte offset k (0-based); bytes no member covers are
\* padding
ByteAt(tdf, k) ==
  IF k < SidWidth THEN LEBytes(tdf.GPS_SID, SidWidth)[k + 1]
  ELSE LET hit == {i \in 1..Len(Fields) :
                     FieldOffset[i] <= k /\ k < FieldOffset[i] + Fields[i].width}
       IN  IF hit = {} THEN 0
           ELSE LET i == CHOOSE x \in hit : TRUE
                IN  LEBytes(tdf.Data[Fields[i].name], Fields[i].width)[k - FieldOffset[i] + 1]

\* reinterpret_cast<const unsigned char *>(&tdf): the object's bytes
RawBytes(tdf) ==
  [k \in 1..(HeaderSize + sizeof_GPS_TDF_DATA) |-> ByteAt(tdf, k - 1)]

\* the unsigned integer stored in w bytes starting at byte offset off (0-based)
RECURSIVE ReadUnsigned(_, _, _)
ReadUnsigned(bytes, off, w) ==
  IF w = 0 THEN 0
  ELSE bytes[off + 1] + 256 * ReadUnsigned(bytes, off + 1, w - 1)

\* the two's complement integer stored in w bytes starting at offset off
ReadSigned(bytes, off, w) ==
  ReadUnsigned(bytes, off, w - 1) +
  256^(w - 1) * (IF bytes[off + w] >= 128 THEN bytes[off + w] - 256 ELSE bytes[off + w])

\* member i of Data read back from the bytes of a record, as its declared type
ReadField(bytes, i) ==
  IF Fields[i].signed
  THEN ReadSigned(bytes, FieldOffset[i], Fields[i].width)
  ELSE ReadUnsigned(bytes, FieldOffset[i], Fields[i].width)

\* GPS_TDF tdf; tdf.Data.<member i> = v; the bytes sendTDFData then takes
EncodeField(i, v) == RawBytes([GPS_TDF EXCEPT !.Data[Fields[i].name] = v])

(* ------------------------- sketch functions ---------------------------- *)
\* sendRawData without the OP_TXRXPEND check
sendRawData_unguarded(data, len, confirm, op) ==
  << Call("sendRawData"), Eff("LMIC.opmode", op),
     Eff("LMIC_setTxData2",
         [port |-> TxPort, data |-> data, len |-> len, confirm |-> confirm]),
     Out("Sending "), Out(len), OutLn(" bytes of data") >>
\* sendRawData that marks the transmission pending itself after the send
sendRawData_setsPending(data, len, confirm, op) ==
  << Call("sendRawData"), Eff("LMIC.opmode", op) >> \o
  ( IF "OP_TXRXPEND" \in op
    THEN <<>>
    ELSE << Eff("LMIC_setTxData2",
                [port |-> TxPort, data |-> data, len |-> len, confirm |-> confirm]),
            Eff("LMIC.opmode=", op \cup {"OP_TXRXPEND"}),
            Out("Sending "), Out(len), OutLn(" bytes of data") >> )
\* sendRawData(data, len, confirm): returns at once when OP_TXRXPEND is set
sendRawData(data, len, confirm, op) ==
  << Call("sendRawData"), Eff("LMIC.opmode", op) >> \o
  ( IF "OP_TXRXPEND" \in op
    THEN <<>>
    ELSE << Eff("LMIC_setTxData2",
                [port |-> TxPort, data |-> data, len |-> len, confirm |-> confirm]),
            Out("Sending "), Out(len), OutLn(" bytes of data") >> )

\* sendTDFData that does not pass its confirm argument on
sendTDFData_unconfirmed(tdf, confirm, op) ==
  << Eff("sendTDFData", confirm) >> \o
  sendRawData(RawBytes(tdf), sizeof_GPS_TDF % 256, FALSE, op)
\* sendTDFData(tdf, confirm)
sendTDFData(tdf, confirm, op) ==
  << Eff("sendTDFData", confirm) >> \o
  sendRawData(RawBytes(tdf), sizeof_GPS_TDF % 256, confirm, op)

\* DoSendData that tests OP_TXRXPEND itself before building the record
DoSendData_checkFirst(op) ==
  IF "OP_TXRXPEND" \in op
  THEN << Call("DoSendData"), Eff("LMIC.opmode", op) >>
  ELSE << Call("DoSendData"), Eff("GPS_TDF", GPS_TDF) >> \o
       sendTDFData([GPS_TDF EXCEPT !.Data.lat = DummyLat], TRUE, op)
\* DoSendData that keeps one static record and sends it again
DoSendData_retained(op) ==
  << Call("DoSendData") >> \o
  sendTDFData([GPS_TDF EXCEPT !.Data.lat = DummyLat], TRUE, op)
\* DoSendData(): GPS_TDF tdf; tdf.Data.lat = 1234567890; sendTDFData(tdf, true)
DoSendData(op) ==
  LET tdf0 == GPS_TDF
      tdf == [tdf0 EXCEPT !.Data.lat = DummyLat]
  IN  << Call("DoSendData"), Eff("GPS_TDF", tdf0) >> \o sendTDFData(tdf, TRUE, op)

\* the diagnostic with two independent tests instead of if / else if
AckDiagnostic_both(fl) ==
  << Eff("LMIC.txrxFlags", fl) >> \o
  ( IF "TXRX_ACK" \in fl THEN << OutLn("Received ACK") >> ELSE <<>> ) \o
  << Eff("LMIC.txrxFlags", fl) >> \o
  ( IF "TXRX_NACK" \in fl THEN << OutLn("No ACK received") >> ELSE <<>> )
\* the acknowledgement diagnostic of OnTransferComplete
AckDiagnostic(fl) ==
  << Eff("LMIC.txrxFlags", fl) >> \o
  ( IF "TXRX_ACK" \in fl
    THEN << OutLn("Received ACK") >>
    ELSE << Eff("LMIC.txrxFlags", fl) >> \o
         ( IF "TXRX_NACK" \in fl THEN << OutLn("No ACK received") >> ELSE <<>> ) )

\* OnTransferComplete that resends at once when the uplink was not acknowledged
OnTransferComplete_retryOnNack(op, fl) ==
  << Call("OnTransferComplete"), OutLn("Transfer Complete") >> \o
  AckDiagnostic(fl) \o
  ( IF "TXRX_NACK" \in fl /\ "TXRX_ACK" \notin fl
    THEN <<>> ELSE << Eff("delay", DelayMs) >> ) \o
  DoSendData(op)
\* OnTransferComplete that gives up when the uplink was not acknowledged
OnTransferComplete_stopOnNack(op, fl) ==
  << Call("OnTransferComplete"), OutLn("Transfer Complete") >> \o
  AckDiagnostic(fl) \o
  ( IF "TXRX_NACK" \in fl /\ "TXRX_ACK" \notin fl
    THEN <<>> ELSE << Eff("delay", DelayMs) >> \o DoSendData(op) )
\* OnTransferComplete()
OnTransferComplete(op, fl) ==
  << Call("OnTransferComplete"), OutLn("Transfer Complete") >> \o
  AckDiagnostic(fl) \o
  << Eff("delay", DelayMs) >> \o
  DoSendData(op)

\* OnJoinComplete that waits for the cadence delay before the first uplink
OnJoinComplete_delayed(op) ==
  << Call("OnJoinComplete"), OutLn("Joined network"), Eff("delay", DelayMs) >> \o
  DoSendData(op)
\* OnJoinComplete()
OnJoinComplete(op) ==
  << Call("OnJoinComplete"), OutLn("Joined network") >> \o DoSendData(op)

\* the PRINT_EVENTS block at the top of onEvent
PrintEvent(e) ==
  << Out("Event: ") >> \o
  ( IF e >= 1 /\ e <= EventCount THEN << OutLn(EventName[e - 1]) >> ELSE <<>> )

\* onEvent with EV_RXCOMPLETE dispatched like EV_TXCOMPLETE
onEvent_rxAsTx(e, op, fl) ==
  << Eff("onEvent", e) >> \o PrintEvent(e) \o
  ( CASE e = EV_TXCOMPLETE \/ e = EV_RXCOMPLETE -> OnTransferComplete(op, fl)
      [] e = EV_JOINED -> OnJoinComplete(op)
      [] e = EV_JOINING -> <<>>
      [] OTHER -> << OutLn("unhandled event") >> )
\* onEvent that restarts the join itself on EV_JOIN_FAILED
onEvent_rejoinOnFail(e, op, fl) ==
  << Eff("onEvent", e) >> \o PrintEvent(e) \o
  ( CASE e = EV_TXCOMPLETE -> OnTransferComplete(op, fl)
      [] e = EV_JOINED -> OnJoinComplete(op)
      [] e = EV_JOINING -> <<>>
      [] e = EV_JOIN_FAILED -> << Call("LMIC_reset"), Call("LMIC_startJoining") >>
      [] OTHER -> << OutLn("unhandled event") >> )
\* onEvent that answers EV_JOINING with a join request of its own
onEvent_joiningRestarts(e, op, fl) ==
  << Eff("onEvent", e) >> \o PrintEvent(e) \o
  ( CASE e = EV_TXCOMPLETE -> OnTransferComplete(op, fl)
      [] e = EV_JOINED -> OnJoinComplete(op)
      [] e = EV_JOINING -> << Call("LMIC_startJoining") >>
      [] OTHER -> << OutLn("unhandled event") >> )
\* onEvent(ev)
onEvent(e, op, fl) ==
  << Eff("onEvent", e) >> \o PrintEvent(e) \o
  ( CASE e = EV_TXCOMPLETE -> OnTransferComplete(op, fl)
      [] e = EV_JOINED -> OnJoinComplete(op)
      [] e = EV_JOINING -> <<>>
      [] OTHER -> << OutLn("unhandled event") >> )

\* setup_lmic that resets the session before initializing the stack
setup_lmic_resetFirst ==
  << Call("setup_lmic"), OutLn("Setting up LMIC"),
     Call("LMIC_reset"), Call("os_init"), Call("LMIC_startJoining") >>
\* setup_lmic()
setup_lmic ==
  << Call("setup_lmic"), OutLn("Setting up LMIC"),
     Call("os_init"), Call("LMIC_reset"), Call("LMIC_startJoining") >>

\* setup() up to the end of its k-th failed poll of Serial:
\* Serial.begin(9600); while (!Serial) delay(1);
SetupPrefix(k) ==
  << Call("setup"), Eff("Serial.begin", 9600) >> \o [i \in 1..k |-> Eff("delay", 1)]

\* setup() when Serial is not ready at the first k polls
setup(k) == SetupPrefix(k) \o << OutLn("Started program") >> \o setup_lmic

(* ------------------------------ state ---------------------------------- *)
VARIABLES
  pc,         \* where the sketch is: "setup", "loop" (between os_runloop_once
              \* calls) or "delay" (inside delay(5000) of OnTransferComplete)
  serial,     \* Serial is connected (the while (!Serial) wait of setup)
  session,    \* network membership: "Unjoined", "Joining", "Joined"
  sessionAt,  \* membership when the current onEvent call was entered
  opmode,     \* LMIC.opmode, the bit the sketch reads
  txrxFlags,  \* LMIC.txrxFlags, the bits the sketch reads
  radio,      \* events the stack has raised and not yet reported, oldest first
  ev,         \* argument of the current (or last) onEvent call, -1 before any
  effects,    \* effects of the current (or last) setup/onEvent call so far
  frame,      \* what the stack holds from the last LMIC_setTxData2, <<>> if none
  startup     \* number of os_init, LMIC_reset, LMIC_startJoining calls so far

vars == << pc, serial, session, sessionAt, opmode, txrxFlags, radio, ev,
           effects, frame, startup >>

StartupCalls == {"os_init", "LMIC_reset", "LMIC_startJoining"}

Init ==
  /\ pc = "setup"
  /\ serial = FALSE
  /\ session = "Unjoined"
  /\ sessionAt = "Unjoined"
  /\ opmode = {}
  /\ txrxFlags = {}
  /\ radio = <<>>
  /\ ev = -1
  /\ effects = <<>>
  /\ frame = <<>>
  /\ startup = [c \in StartupCalls |-> 0]

\* what the calls in effs do to the stack and to the membership, given that
\* old is the part of effs already applied.
\* LMIC_setTxData2 may start the transmission before it returns, which sets
\* OP_TXRXPEND; an assignment to LMIC.opmode by the sketch would take effect
\* as written (the sketch has none).
Apply(old, effs) ==
  \E new \in {SubSeq(effs, Len(old) + 1, Len(effs))} :
    \E sends \in {Indices(new, "LMIC_setTxData2")},
       writes \in {Indices(new, "LMIC.opmode=")},
       started \in BOOLEAN :
      /\ sends = {} => ~started
      /\ frame' = IF sends = {} THEN frame
                  ELSE << new[CHOOSE i \in sends : \A j \in sends : j <= i].arg >>
      /\ opmode' =
           ( IF writes = {} THEN opmode
             ELSE new[CHOOSE i \in writes : \A j \in writes : j <= i].arg ) \cup
           ( IF started THEN {"OP_TXRXPEND"} ELSE {} )
      /\ startup' = [c \in StartupCalls |-> startup[c] + CountOp(new, c)]
      /\ session' = IF CountOp(new, "OnJoinComplete") > 0 THEN "Joined"
                    ELSE IF CountOp(new, "LMIC_startJoining") > 0 THEN "Joining"
                    ELSE session

\* effs up to and including its first delay, all of effs when it has none
UntilDelay(effs) ==
  LET ds == Indices(effs, "delay")
  IN  IF ds = {} THEN effs
      ELSE SubSeq(effs, 1, CHOOSE i \in ds : \A j \in ds : i <= j)

\* the USB serial port is opened, before setup() is entered or while it
\* waits in while (!Serial) delay(1)
UsbConnect ==
  /\ pc = "setup"
  /\ ~serial
  /\ serial' = TRUE
  /\ UNCHANGED << pc, session, sessionAt, opmode, txrxFlags, radio, ev,
                  effects, frame, startup >>

\* setup() finds Serial not ready: it runs up to the end of one more
\* delay(1), from its entry when this is the first poll
SetupWait ==
  /\ pc = "setup"
  /\ ~serial
  /\ CountOp(effects, "delay") < MaxPolls
  /\ effects' = SetupPrefix(CountOp(effects, "delay") + 1)
  /\ UNCHANGED << pc, serial, session, sessionAt, opmode, txrxFlags, radio, ev,
                  frame, startup >>

\* setup() finds Serial ready and runs to its end, from its entry when no
\* poll failed; then the sketch enters loop()
Setup ==
  /\ pc = "setup"
  /\ serial
  /\ \E full \in {setup(CountOp(effects, "delay"))} :
       /\ effects' = full
       /\ Apply(effects, full)
  /\ pc' = "loop"
  /\ UNCHANGED << serial, sessionAt, txrxFlags, radio, ev >>

\* the radio side raises an event; the stack reports it from a later
\* os_runloop_once
RadioRaise(e, cap) ==
  /\ pc # "setup"
  /\ Len(radio) < cap
  /\ radio' = Append(radio, e)
  /\ UNCHANGED << pc, serial, session, sessionAt, opmode, txrxFlags, ev,
                  effects, frame, startup >>

RadioEvent(e) == RadioRaise(e, MaxQueue)

\* loop(): os_runloop_once runs a stack job that reports no event; the
\* stack is free to move its pending and acknowledgement bits
RunloopJob(op, fl) ==
  /\ pc = "loop"
  /\ << op, fl >> # << opmode, txrxFlags >>
  /\ opmode' = op
  /\ txrxFlags' = fl
  /\ UNCHANGED << pc, serial, session, sessionAt, radio, ev, effects, frame,
                  startup >>

\* os_runloop_once also called while delay(5000) is running, as a delay that
\* keeps the stack serviced would do
RunloopEvent_duringDelay ==
  /\ pc \in {"loop", "delay"}
  /\ radio # <<>>
  /\ \E full \in {onEvent(Head(radio), opmode, txrxFlags)} :
       \E part \in {UntilDelay(full)} :
          /\ ev' = Head(radio)
          /\ effects' = part
          /\ Apply(<<>>, part)
          /\ pc' = IF Len(part) < Len(full) THEN "delay" ELSE "loop"
  /\ radio' = Tail(radio)
  /\ sessionAt' = session
  /\ UNCHANGED << serial, txrxFlags >>
\* loop(): os_runloop_once reports the oldest raised event through onEvent,
\* which runs up to its return or up to the delay(5000) of OnTransferComplete
RunloopEvent ==
  /\ pc = "loop"
  /\ radio # <<>>
  /\ \E full \in {onEvent(Head(radio), opmode, txrxFlags)} :
       \E part \in {UntilDelay(full)} :
          /\ ev' = Head(radio)
          /\ effects' = part
          /\ Apply(<<>>, part)
          /\ pc' = IF Len(part) < Len(full) THEN "delay" ELSE "loop"
  /\ radio' = Tail(radio)
  /\ sessionAt' = session
  /\ UNCHANGED << serial, txrxFlags >>

\* delay(5000) returns and OnTransferComplete runs to its end
DelayElapsed ==
  /\ pc = "delay"
  /\ \E full \in {onEvent(ev, opmode, txrxFlags)} :
       /\ effects' = full
       /\ Apply(effects, full)
  /\ pc' = "loop"
  /\ UNCHANGED << serial, sessionAt, txrxFlags, radio, ev >>

Next ==
  \/ UsbConnect
  \/ SetupWait
  \/ Setup
  \/ \E e \in EventCodes : RadioEvent(e)
  \/ \E op \in SUBSET OpModeBits, fl \in SUBSET TxRxBits : RunloopJob(op, fl)
  \/ RunloopEvent
  \/ DelayElapsed

Spec == Init /\ [][Next]_vars

\* the event codes onEvent names, and one it leaves to its default branch
DispatchedCodes == {EV_JOINED, EV_JOIN_FAILED, EV_JOINING, EV_TXCOMPLETE}
LiveEvents == DispatchedCodes \cup {EV_RXCOMPLETE}

\* the same sketch with the stack raising only the codes of LiveEvents
LiveNext ==
  \/ UsbConnect
  \/ SetupWait
  \/ Setup
  \/ \E e \in LiveEvents : RadioEvent(e)
  \/ \E op \in SUBSET OpModeBits, fl \in SUBSET TxRxBits : RunloopJob(op, fl)
  \/ RunloopEvent
  \/ DelayElapsed

\* the same sketch with the stack raising a few codes and holding one more
\* raised event than MaxQueue, so that events can wait behind one another
OrderEvents == {EV_JOINED, EV_TXCOMPLETE, EV_RXCOMPLETE}

OrderNext ==
  \/ UsbConnect
  \/ SetupWait
  \/ Setup
  \/ \E e \in OrderEvents : RadioRaise(e, MaxQueue + 1)
  \/ \E op \in SUBSET OpModeBits, fl \in SUBSET TxRxBits : RunloopJob(op, fl)
  \/ RunloopEvent
  \/ DelayElapsed

OrderSpec == Init /\ [][OrderNext]_vars

\* loop() is called forever and delay() returns
LiveSpec ==
  Init /\ [][LiveNext]_vars /\ WF_vars(RunloopEvent) /\ WF_vars(DelayElapsed)

TypeOK ==
  /\ pc \in {"setup", "loop", "delay"}
  /\ serial \in BOOLEAN
  /\ session \in {"Unjoined", "Joining", "Joined"}
  /\ opmode \subseteq OpModeBits
  /\ txrxFlags \subseteq TxRxBits
  /\ Len(radio) <= MaxQueue
  /\ ev \in EventCodes \cup {-1}
  /\ Len(frame) <= 1

(* ------------------------- helper predicates --------------------------- *)
\* a read of LMIC.opmode in the current handler found OP_TXRXPEND set
ReadPending ==
  \E j \in Indices(effects, "LMIC.opmode") : "OP_TXRXPEND" \in effects[j].arg

\* the handler called LMIC_setTxData2
Sent == CountOp(effects, "LMIC_setTxData2") > 0

\* the acknowledgement bits OnTransferComplete read
FlagsRead(fl) ==
  \E j \in Indices(effects, "LMIC.txrxFlags") : effects[j].arg = fl

(* ------------------------------ claims --------------------------------- *)

\* C1: LMIC_setTxData2 is never called while OP_TXRXPEND is set: every send
\* call directly follows a read of LMIC.opmode that found the bit clear, and
\* a submit whose read found the bit set ends there, with no send call and
\* no output.
C1_NoSendWhilePending ==
  /\ \A i \in Indices(effects, "LMIC_setTxData2") :
        /\ i > 1
        /\ effects[i - 1].op = "LMIC.opmode"
        /\ "OP_TXRXPEND" \notin effects[i - 1].arg
  /\ \A j \in Indices(effects, "LMIC.opmode") :
        "OP_TXRXPEND" \in effects[j].arg => j = Len(effects)

C1_Witness ==
  /\ pc = "loop"
  /\ CountOp(effects, "DoSendData") = 1
  /\ ReadPending
  /\ ~Sent

\* C2: after EV_JOINED is handled in session state Joining, the state is
\* Joined and the handler made exactly one submit, with confirm = true and
\* with no delay.
C2_JoinSubmitsOnce ==
  (pc = "loop" /\ ev = EV_JOINED /\ sessionAt = "Joining") =>
     /\ session = "Joined"
     /\ CountOp(effects, "DoSendData") = 1
     /\ CountOp(effects, "delay") = 0
     /\ \A i \in Indices(effects, "sendTDFData") : effects[i].arg = TRUE
     /\ CountOp(effects, "sendTDFData") = 1

C2_Witness ==
  /\ pc = "loop"
  /\ ev = EV_JOINED
  /\ sessionAt = "Joining"
  /\ session = "Joined"
  /\ Sent

\* C3: handling EV_TXCOMPLETE while Joined performs exactly one delay of
\* 5000 ms, whatever the acknowledgement bits; no submit happens while the
\* delay runs, and exactly one submit follows it.
C3_TxCompleteSchedulesOnce ==
  (ev = EV_TXCOMPLETE /\ sessionAt = "Joined") =>
     /\ CountOp(effects, "delay") = 1
     /\ \A d \in Indices(effects, "delay") :
           /\ effects[d].arg = 5000
           /\ \A k \in Indices(effects, "DoSendData") : d < k
     /\ (pc = "delay" => CountOp(effects, "DoSendData") = 0)
     /\ (pc = "loop" => CountOp(effects, "DoSendData") = 1)

C3_Witness ==
  /\ pc = "loop"
  /\ ev = EV_TXCOMPLETE
  /\ sessionAt = "Joined"
  /\ FlagsRead({})
  /\ CountOp(effects, "delay") = 1
  /\ Sent

\* C4 as stated: the record handed to LMIC_setTxData2 is 23 bytes long.
C4_Original ==
  frame # <<>> => (frame[1].len = 23 /\ Len(frame[1].data) = 23)

\* C4 amended: the record handed to LMIC_setTxData2 is 24 bytes long, the
\* 2-byte header plus the 22 bytes of the ten payload fields.
C4_Length24 ==
  frame # <<>> =>
     /\ frame[1].len = 24
     /\ Len(frame[1].data) = 24
     /\ frame[1].len = 2 + (4 + 4 + 4 + 2 + 2 + 2 + 1 + 1 + 1 + 1)

C4_Witness ==
  /\ frame # <<>>
  /\ Sent
  /\ frame[1].len = 24

\* C5: an event code other than EV_JOINED, EV_JOIN_FAILED, EV_JOINING and
\* EV_TXCOMPLETE leaves the session state as it was and makes no scheduler
\* call: no submit, no delay, no send, and the handler returns.
C5_UnknownEventsIgnored ==
  (ev \in EventCodes \ DispatchedCodes) =>
     /\ session = sessionAt
     /\ pc = "loop"
     /\ CountOp(effects, "DoSendData") = 0
     /\ CountOp(effects, "sendTDFData") = 0
     /\ CountOp(effects, "delay") = 0
     /\ CountOp(effects, "LMIC_setTxData2") = 0

C5_Witness ==
  /\ ev = EV_RXCOMPLETE
  /\ sessionAt = "Joined"
  /\ session = "Joined"
  /\ CountOp(effects, "onEvent") = 1
  /\ effects[Len(effects)] = OutLn("unhandled event")

\* C6: after EV_JOIN_FAILED is handled in session state Joining, the state
\* is still Joining and the handler made no submit, no send and no
\* LMIC_startJoining or LMIC_reset call.
C6_JoinFailedNoAction ==
  (ev = EV_JOIN_FAILED /\ sessionAt = "Joining") =>
     /\ session = "Joining"
     /\ pc = "loop"
     /\ CountOp(effects, "DoSendData") = 0
     /\ CountOp(effects, "LMIC_setTxData2") = 0
     /\ CountOp(effects, "LMIC_startJoining") = 0
     /\ CountOp(effects, "LMIC_reset") = 0

C6_Witness ==
  /\ ev = EV_JOIN_FAILED
  /\ sessionAt = "Joining"
  /\ session = "Joining"
  /\ CountOp(effects, "onEvent") = 1

\* C7 as stated: a GPS_TDF record is constructed only when OP_TXRXPEND is
\* clear.
C7_Original ==
  CountOp(effects, "GPS_TDF") > 0 => ~ReadPending

\* C7 amended: every submit constructs a GPS_TDF record first, whatever the
\* pending flag; when the flag is set that record is not handed to the
\* stack.
C7_RecordBuiltNotSent ==
  /\ \A i \in Indices(effects, "DoSendData") :
        /\ i < Len(effects)
        /\ effects[i + 1].op = "GPS_TDF"
  /\ ReadPending => (CountOp(effects, "GPS_TDF") = 1 /\ ~Sent)

C7_Witness ==
  /\ ReadPending
  /\ CountOp(effects, "GPS_TDF") = 1
  /\ ~Sent
  /\ ev = EV_TXCOMPLETE

\* C8: LMIC_startJoining is called exactly once, by setup: before setup the
\* session is Unjoined with no join request made, afterwards it is never
\* Unjoined again and the number of join requests stays 1.
C8_JoinStartedOnce ==
  /\ (pc = "setup" => (session = "Unjoined" /\ startup["LMIC_startJoining"] = 0))
  /\ (pc # "setup" => (session # "Unjoined" /\ startup["LMIC_startJoining"] = 1))

C8_Witness ==
  /\ pc = "loop"
  /\ ev = EV_JOINING
  /\ sessionAt = "Joining"
  /\ session = "Joining"
  /\ startup["LMIC_startJoining"] = 1

\* C9: once Joined, every raised EV_TXCOMPLETE leads to the cadence delay,
\* a delay that ends with OP_TXRXPEND clear leads to a send of a newly
\* constructed record, and the sketch always returns to loop(), where the
\* next event can be handled.
C9_CadenceContinues ==
  /\ (pc = "loop" /\ session = "Joined" /\ radio # <<>> /\ Head(radio) = EV_TXCOMPLETE)
        ~> (pc = "delay" /\ ev = EV_TXCOMPLETE)
  /\ (pc = "delay" /\ "OP_TXRXPEND" \notin opmode)
        ~> (pc = "loop" /\ ev = EV_TXCOMPLETE /\ CountOp(effects, "GPS_TDF") = 1 /\ Sent)
  /\ [](pc # "setup" => <>(pc = "loop"))

C9_Witness ==
  /\ pc = "loop"
  /\ ev = EV_TXCOMPLETE
  /\ sessionAt = "Joined"
  /\ FlagsRead({"TXRX_NACK"})
  /\ CountOp(effects, "GPS_TDF") = 1
  /\ Sent

\* C10: in the record handed to LMIC_setTxData2 the first two bytes hold
\* 281, the fields lon, lat, height, accuracy, heading, speed, pdop, fix,
\* numsv, flags have widths 4, 4, 4, 2, 2, 2, 1, 1, 1, 1 and each starts
\* where the previous one ends, the first at byte 2; lat holds the value
\* DoSendData stored and every other payload byte is zero.
C10_Layout ==
  frame # <<>> =>
     LET d == frame[1].data
     IN  /\ ReadUnsigned(d, 0, 2) = 281
         /\ [i \in 1..Len(Fields) |-> Fields[i].name] =
               << "lon", "lat", "height", "accuracy", "heading", "speed",
                  "pdop", "fix", "numsv", "flags" >>
         /\ [i \in 1..Len(Fields) |-> Fields[i].width] =
               << 4, 4, 4, 2, 2, 2, 1, 1, 1, 1 >>
         /\ FieldOffset[1] = 2
         /\ \A i \in 2..Len(Fields) :
               FieldOffset[i] = FieldOffset[i - 1] + Fields[i - 1].width
         /\ ReadUnsigned(d, 6, 4) = 1234567890
         /\ \A k \in 1..Len(d) : (k <= 2 \/ k \in 7..10) \/ d[k] = 0

C10_Witness ==
  /\ frame # <<>>
  /\ frame[1].data[1] = 25
  /\ frame[1].data[2] = 1
  /\ frame[1].data[7] = 210

\* C11: every send in a handler carries a record constructed earlier in that
\* same handler: the constructed record has GPS_SID 281 and every payload
\* field zero, the bytes sent are that record with lat populated, and a
\* handler sends at most once, also when the acknowledgement was denied.
C11_FreshRecordPerSend ==
  /\ CountOp(effects, "LMIC_setTxData2") <= 1
  /\ \A i \in Indices(effects, "LMIC_setTxData2") :
        /\ CountOp(effects, "GPS_TDF") = 1
        /\ \A c \in Indices(effects, "GPS_TDF") :
              /\ c < i
              /\ effects[c].arg.GPS_SID = 281
              /\ \A n \in FieldNames : effects[c].arg.Data[n] = 0
              /\ effects[i].arg.data =
                    RawBytes([effects[c].arg EXCEPT !.Data.lat = 1234567890])

C11_Witness ==
  /\ ev = EV_TXCOMPLETE
  /\ pc = "loop"
  /\ FlagsRead({"TXRX_NACK"})
  /\ frame # <<>>
  /\ \E c \in Indices(effects, "GPS_TDF") :
        \E i \in Indices(effects, "LMIC_setTxData2") :
           c < i /\ effects[c].arg.Data.lat = 0

\* the calls the sketch makes into the stack
StackCalls == StartupCalls \cup {"LMIC_setTxData2"}

\* C12: os_init, LMIC_reset and LMIC_startJoining are each called exactly
\* once, by setup, in that order, with no stack call before os_init, however
\* long setup waited for Serial; no event is reported (os_runloop_once) and
\* nothing is sent before all three.
C12_StartupOrder ==
  /\ pc = "setup" =>
        /\ \A c \in StartupCalls : startup[c] = 0
        /\ \A i \in 1..Len(effects) : effects[i].op \notin StackCalls
  /\ pc # "setup" => \A c \in StartupCalls : startup[c] = 1
  /\ (ev # -1 \/ frame # <<>> \/ radio # <<>>) =>
        \A c \in StartupCalls : startup[c] = 1
  /\ (pc = "loop" /\ ev = -1) =>
        /\ \A c \in StartupCalls : CountOp(effects, c) = 1
        /\ \A a \in Indices(effects, "os_init") :
              /\ \A i \in 1..(a - 1) : effects[i].op \notin StackCalls
              /\ \A b \in Indices(effects, "LMIC_reset") :
                    /\ a < b
                    /\ \A c \in Indices(effects, "LMIC_startJoining") : b < c

C12_Witness ==
  /\ pc = "loop"
  /\ ev = -1
  /\ CountOp(effects, "delay") = 2
  /\ CountOp(effects, "os_init") = 1
  /\ \A c \in StartupCalls : startup[c] = 1

(* ------------------- the record encoder on its own --------------------- *)
\* values assigned to a member: inside every width, on the edges of the
\* 1-, 2- and 4-byte ranges, and outside the 1- and 2-byte ranges
TestValues ==
  { 0, 1, 127, 128, 255, 256, 257, 32767, 32768, 65535, 65536, 65537,
    1234567890, 2147483647, -1, -128, -129, -32768, -65536, -2147483647 }

\* the 32-bit unsigned member takes the values the checker's integers can
\* hold after conversion, the other members take every test value
EncInputs ==
  { in \in [field : 1..Len(Fields), value : TestValues] :
      (Fields[in.field].width = 4 /\ ~Fields[in.field].signed) => in.value >= 0 }

EncInit ==
  /\ pc = "encode"
  /\ serial = FALSE
  /\ session = "Unjoined"
  /\ sessionAt = "Unjoined"
  /\ opmode = {}
  /\ txrxFlags = {}
  /\ radio = <<>>
  /\ ev = -1
  /\ \E in \in EncInputs : effects = << Eff("assign", in) >>
  /\ frame = <<>>
  /\ startup = [c \in StartupCalls |-> 0]

\* the record is constructed, the member assigned and the bytes taken
EncodeStep ==
  /\ pc = "encode"
  /\ pc' = "encoded"
  /\ frame' = << [port |-> TxPort,
                  data |-> EncodeField(effects[1].arg.field, effects[1].arg.value),
                  len |-> sizeof_GPS_TDF % 256,
                  confirm |-> TRUE] >>
  /\ UNCHANGED << serial, session, sessionAt, opmode, txrxFlags, radio, ev,
                  effects, startup >>

EncNext == EncodeStep

EncSpec == EncInit /\ [][EncNext]_vars

\* the integer a member of the given width holds after v is assigned to it
Wrapped(i, v) ==
  IF Fields[i].width = 4 THEN v ELSE v % (256^Fields[i].width)

\* C13: after a value is assigned to one member and the record's bytes are
\* taken, reading that member back at its byte offset gives the value when
\* it fits the member's width and the value modulo 2^width when it does
\* not (a negative value in a signed member reads back negative, its top
\* byte having the sign bit set), and every other member still reads 0.
C13_RoundTrip ==
  pc = "encoded" =>
     LET i == effects[1].arg.field
         v == effects[1].arg.value
         d == frame[1].data
     IN  /\ ReadField(d, i) = Wrapped(i, v)
         /\ \A j \in 1..Len(Fields) : j # i => ReadField(d, j) = 0
         /\ ReadUnsigned(d, 0, 2) = 281
         /\ (Fields[i].signed /\ v < 0) =>
               d[FieldOffset[i] + Fields[i].width] >= 128

C13_Witness ==
  /\ pc = "encoded"
  /\ effects[1].arg.field = 4
  /\ effects[1].arg.value = 65537
  /\ ReadUnsigned(frame[1].data, 14, 2) = 1

\* C14: handlers neither overlap nor reorder.  While OnTransferComplete is
\* in its delay no other handler starts: the current event stays the same,
\* the handler's effects only grow, events raised meanwhile are appended
\* behind those already waiting, and the delay ends with the handler's one
\* submit.  The only other change to the waiting events is the removal of
\* the oldest one, from loop(), and that event is the one onEvent is
\* called with.
C14_InOrderNoOverlap ==
  [][ /\ pc = "delay" =>
           /\ ev' = ev
           /\ sessionAt' = sessionAt
           /\ Len(effects') >= Len(effects)
           /\ \A i \in 1..Len(effects) : effects'[i].op = effects[i].op
           /\ radio' = radio \/ \E e \in EventCodes : radio' = Append(radio, e)
           /\ pc' = "loop" => CountOp(effects', "DoSendData") = 1
      /\ radio' # radio =>
           \/ \E e \in EventCodes : radio' = Append(radio, e)
           \/ /\ radio # <<>>
              /\ radio' = Tail(radio)
              /\ pc = "loop"
              /\ ev' = Head(radio)
              /\ effects'[1].op = "onEvent"
              /\ effects'[1].arg = Head(radio)
    ]_vars

C14_Witness ==
  /\ pc = "delay"
  /\ ev = EV_TXCOMPLETE
  /\ Len(radio) = 2
  /\ radio[1] # radio[2]

\* the fifteen names the initializer of EventName lists, one per event code
EventOwnName ==
  << "Scan Timeout", "Beacon Found", "Beacon Missed", "Beacon Tracked",
     "Joining", "Joined", "RFU", "Join Failed", "Rejoin Failed",
     "TX Complete", "Lost TSync", "Reset", "RXComplete",
     "Link Dead", "Link Alive" >>

\* the name the last onEvent call printed after "Event: ", if onEvent has
\* been called and printed one
NamePrinted ==
  IF Len(effects) >= 3 /\ effects[1].op = "onEvent"
        /\ effects[2] = Out("Event: ")
        /\ effects[3].op = "Serial.println"
        /\ effects[3].arg # "unhandled event"
  THEN << effects[3].arg >>
  ELSE <<>>

\* C15: for every event code 1..EventCount onEvent prints the populated
\* entry EventName[ev - 1], which is that event's own name; for a code
\* outside that range it reads no entry; in both cases onEvent runs on.
C15_Original ==
  ev \in EventCodes =>
     /\ pc \in {"loop", "delay"}
     /\ (ev >= 1 /\ ev <= EventCount) =>
           /\ NamePrinted # <<>>
           /\ NamePrinted[1] # NullPtr
           /\ NamePrinted[1] = EventOwnName[ev]
     /\ ~(ev >= 1 /\ ev <= EventCount) => NamePrinted = <<>>

\* C16: every LMIC_setTxData2 call, after a join and after a transmission
\* alike, has confirmed = true, and so has the frame the stack holds.
C16_AlwaysConfirmed ==
  /\ \A i \in Indices(effects, "LMIC_setTxData2") : effects[i].arg.confirm = TRUE
  /\ frame # <<>> => frame[1].confirm = TRUE
  /\ \A i \in Indices(effects, "sendTDFData") : effects[i].arg = TRUE

C16_Witness ==
  /\ ev = EV_TXCOMPLETE
  /\ sessionAt = "Joined"
  /\ Sent
  /\ frame # <<>>
  /\ frame[1].confirm = TRUE

\* the handler wrote the line s to Serial
Printed(s) ==
  \E i \in Indices(effects, "Serial.println") : effects[i].arg = s

\* C17: on EV_TXCOMPLETE "Received ACK" is printed exactly when TXRX_ACK is
\* set, "No ACK received" exactly when TXRX_NACK is set and TXRX_ACK is not,
\* never both; for all four combinations the delay runs and one submit
\* follows it.
C17_AckDiagnostic ==
  ev = EV_TXCOMPLETE =>
     /\ CountOp(effects, "LMIC.txrxFlags") >= 1
     /\ \A r \in Indices(effects, "LMIC.txrxFlags") :
           /\ Printed("Received ACK") <=> "TXRX_ACK" \in effects[r].arg
           /\ Printed("No ACK received") <=>
                 ("TXRX_NACK" \in effects[r].arg /\ "TXRX_ACK" \notin effects[r].arg)
     /\ ~(Printed("Received ACK") /\ Printed("No ACK received"))
     /\ CountOp(effects, "delay") = 1
     /\ pc = "loop" => CountOp(effects, "DoSendData") = 1

C17_Witness ==
  /\ ev = EV_TXCOMPLETE
  /\ pc = "loop"
  /\ FlagsRead({"TXRX_ACK", "TXRX_NACK"})
  /\ Printed("Received ACK")
  /\ ~Printed("No ACK received")
  /\ CountOp(effects, "DoSendData") = 1

\* C18: the sketch never assigns LMIC.opmode.  OP_TXRXPEND changes only in
\* a stack job run by os_runloop_once that reports no event, or becomes set
\* inside an LMIC_setTxData2 call the stack accepted.
C18_PendingOnlyByStack ==
  [][ /\ CountOp(effects', "LMIC.opmode=") = 0
      /\ opmode' # opmode =>
           \/ /\ pc = "loop"
              /\ pc' = "loop"
              /\ radio' = radio
              /\ ev' = ev
              /\ Len(effects') = Len(effects)
           \/ /\ pc = "delay" \/ radio' # radio
              /\ CountOp(effects', "LMIC_setTxData2") > 0
              /\ opmode' = opmode \cup {"OP_TXRXPEND"}
    ]_vars

C18_Witness ==
  /\ pc = "loop"
  /\ ev = EV_JOINED
  /\ Sent
  /\ ~ReadPending
  /\ "OP_TXRXPEND" \in opmode

\* C19: nothing is sent before the device has joined: a frame is handed to
\* the stack only in session state Joined, and EV_TXCOMPLETE reported while
\* the session is Unjoined or Joining causes no delay, no submit and no
\* send.
C19_Original ==
  /\ (Sent \/ frame # <<>>) => session = "Joined"
  /\ (ev = EV_TXCOMPLETE /\ sessionAt # "Joined") =>
        /\ pc = "loop"
        /\ CountOp(effects, "delay") = 0
        /\ CountOp(effects, "DoSendData") = 0
        /\ CountOp(effects, "LMIC_setTxData2") = 0
====
